---- MODULE Spec2Model ----
(***************************************************************************)
(* Neural Style Memory Book - the service worker (sw.js): install and      *)
(* activate lifecycle, request classification, the five cache strategies,  *)
(* cache cleanup and the offline fallback.                                  *)
(*                                                                         *)
(* Strings of the program that are tested by regular expressions (URLs)    *)
(* are sequences of tokens; a token is a piece of text no pattern of       *)
(* ROUTE_CONFIG splits.  Times are [day, ms] pairs (milliseconds since the *)
(* epoch, split at day boundaries), so that the 30-day max age fits in    *)
(* 32-bit integers.                                                        *)
(***************************************************************************)
EXTENDS Integers, Sequences, FiniteSets, TLC

VARIABLES
    now,          \* Date.now()
    ticks,        \* clock advances so far
    cacheNames,   \* caches.keys(): the existing caches, in creation order
    store,        \* store[name]: the entries of cache `name`, in insertion order
    sw,           \* the worker's lifecycle state and the position of its install/activate handler
    req,          \* req[r]: the fetch event handled in slot r
    issued,       \* fetch events (or handleRequest calls) issued so far
    policy,       \* SpecExec: the route configuration handleRequest is called with
    ev,           \* SpecEvict: maxEntries, the keys written so far, the state of the pass
    cmd           \* cmd[k]: the message event (command of a page) handled in slot k

vars == <<now, ticks, cacheNames, store, sw, req, issued, policy, ev, cmd>>

-----------------------------------------------------------------------------
(* Bounds of the model *)

MaxTicks == 2
MaxRequests == 2
MaxSlots == 2
MaxN == 2
MaxWrites == 4
MinEarlier == 19
MaxEarlier == 21

-----------------------------------------------------------------------------
(* sw.js:44-48 *)

STATIC_CACHE == "neural-static-v1.2.0"
DYNAMIC_CACHE == "neural-dynamic-v1.2.0"
MODEL_CACHE == "neural-models-v1.2.0"
IMAGE_CACHE == "neural-images-v1.2.0"

\* caches left by the previous version of the worker
OldCaches == {"neural-static-v1.1.0", "neural-dynamic-v1.1.0"}

AllCaches == {STATIC_CACHE, DYNAMIC_CACHE, MODEL_CACHE, IMAGE_CACHE} \cup OldCaches

-----------------------------------------------------------------------------
(* Time: Date.now(), Date.prototype.toISOString, new Date(string) *)

DayMs == 24 * 60 * 60 * 1000

Time(d, m) == [day |-> d, ms |-> m]

\* new Date(0)
Epoch == Time(0, 0)

\* the clock when the worker is first started
StartTime == Time(20000, 0)

\* a - b, for a >= b
TimeSub(a, b) ==
    IF a.ms >= b.ms THEN Time(a.day - b.day, a.ms - b.ms)
    ELSE Time(a.day - b.day - 1, a.ms + DayMs - b.ms)

TimeAdd(a, b) ==
    IF a.ms + b.ms < DayMs THEN Time(a.day + b.day, a.ms + b.ms)
    ELSE Time(a.day + b.day + 1, a.ms + b.ms - DayMs)

\* a > b
TimeGt(a, b) == a.day > b.day \/ (a.day = b.day /\ a.ms > b.ms)

\* a duration of `d` days and `m` milliseconds
Duration(d, m) == Time(d, m)

\* the ISO-8601 text of a time: <<date part, "T", time-of-day part, "Z">>
ToISOString(t) == <<t.day, "T", t.ms, "Z">>

\* new Date(isoText).getTime()
ParseDate(s) == Time(s[1], s[3])

-----------------------------------------------------------------------------
(* URLs.  Url[u] gives the parts of the URL whose text is u:               *)
(* protocol (url.protocol), host, pathname (url.pathname), search.  The    *)
(* application is served from https://app.example.                         *)

Origin == <<"app", ".", "example">>

Https == <<"http", "s", ":">>

ChromeExt == <<"chrome-extension", ":">>

Parts(proto, host, path, search) ==
    [protocol |-> proto, host |-> host, pathname |-> path, search |-> search]

Url ==
    [u \in {"https://cdn.example/app/logo.png"} |->
        Parts(Https, <<"cdn", ".", "example">>, <<"/", "app", "/", "logo", ".png">>, <<>>)]
    @@ [u \in {"https://app.example/photos/pic.webp"} |->
        Parts(Https, Origin, <<"/", "photos", "/", "pic", ".webp">>, <<>>)]
    @@ [u \in {"https://app.example/"} |->
        Parts(Https, Origin, <<"/">>, <<>>)]
    @@ [u \in {"https://app.example/index.html"} |->
        Parts(Https, Origin, <<"/", "index", ".html">>, <<>>)]
    @@ [u \in {"https://app.example/api/photos"} |->
        Parts(Https, Origin, <<"/", "api", "/", "photos">>, <<>>)]
    @@ [u \in {"https://app.example/photos/42"} |->
        Parts(Https, Origin, <<"/", "photos", "/", "42">>, <<>>)]
    @@ [u \in {"https://cdn.jsdelivr.net/npm/@tensorflow-models/blazeface@0.0.7/dist/blazeface.min.js"} |->
        Parts(Https, <<"cdn", ".", "jsdelivr", ".", "net">>,
              <<"/", "npm", "/", "@", "tensorflow", "-models", "/", "blazeface", "@0.0.7",
                "/", "dist", "/", "blazeface", ".min", ".js">>, <<>>)]
    @@ [u \in {"https://cdn.jsdelivr.net/npm/@tensorflow-models/mobilenet@2.1.1/dist/mobilenet.min.js"} |->
        Parts(Https, <<"cdn", ".", "jsdelivr", ".", "net">>,
              <<"/", "npm", "/", "@", "tensorflow", "-models", "/", "mobilenet", "@2.1.1",
                "/", "dist", "/", "mobilenet", ".min", ".js">>, <<>>)]
    @@ [u \in {"https://storage.example/tensorflow/model.json"} |->
        Parts(Https, <<"storage", ".", "example">>,
              <<"/", "tensorflow", "/", "model", ".json">>, <<>>)]
    @@ [u \in {"chrome-extension://abcdef/inject.js"} |->
        Parts(ChromeExt, <<"abcdef">>, <<"/", "inject", ".js">>, <<>>)]

\* url.href
Href(u) == Url[u].protocol \o <<"/", "/">> \o Url[u].host \o Url[u].pathname \o Url[u].search

\* url.pathname
Pathname(u) == Url[u].pathname

\* String.prototype.startsWith, on token sequences
StartsWith(s, prefix) ==
    /\ Len(s) >= Len(prefix)
    /\ SubSeq(s, 1, Len(prefix)) = prefix

\* /x$/ for a one-token x among `ends`
EndsWithOneOf(s, ends) == Len(s) > 0 /\ s[Len(s)] \in ends

\* /a|b|c/ for one-token alternatives
ContainsOneOf(s, words) == \E i \in 1..Len(s) : s[i] \in words

\* /xyz/ for the token sequence `sub`
Contains(s, sub) ==
    \E i \in 1..Len(s) :
        /\ i + Len(sub) - 1 <= Len(s)
        /\ SubSeq(s, i, i + Len(sub) - 1) = sub

-----------------------------------------------------------------------------
(* sw.js:51-71 *)

AppUrl(path) == "https://app.example" \o path

STATIC_ASSETS == <<
    AppUrl("/"),
    AppUrl("/index.html"),
    AppUrl("/css/variables.css"),
    AppUrl("/css/styles.css"),
    AppUrl("/css/queries.css"),
    AppUrl("/js/script.js"),
    AppUrl("/manifest.json"),
    "https://cdnjs.cloudflare.com/ajax/libs/three.js/r128/three.min.js",
    "https://cdnjs.cloudflare.com/ajax/libs/gsap/3.12.2/gsap.min.js",
    "https://cdn.jsdelivr.net/npm/@tensorflow/tfjs@4.10.0/dist/tf.min.js",
    "https://cdn.jsdelivr.net/npm/@tensorflow-models/mobilenet@2.1.1/dist/mobilenet.min.js",
    "https://cdn.jsdelivr.net/npm/@tensorflow-models/blazeface@0.0.7/dist/blazeface.min.js" >>

MODEL_URLS == <<
    "https://cdn.jsdelivr.net/npm/@tensorflow-models/blazeface@0.0.7/dist/blazeface.min.js",
    "https://cdn.jsdelivr.net/npm/@tensorflow-models/mobilenet@2.1.1/dist/mobilenet.min.js" >>

Range(s) == {s[i] : i \in 1..Len(s)}

-----------------------------------------------------------------------------
(* sw.js:74-119 *)

CACHE_FIRST == "cache-first"
NETWORK_FIRST == "network-first"
STALE_WHILE_REVALIDATE == "stale-while-revalidate"
NETWORK_ONLY == "network-only"
CACHE_ONLY == "cache-only"

Config(s, c, a, n) == [strategy |-> s, cacheName |-> c, maxAge |-> a, maxEntries |-> n]

\* Object.entries(ROUTE_CONFIG): the routes in the order they are written
RouteOrder == <<"static", "models", "images", "api", "html">>

ROUTE_CONFIG_HtmlKeeps50 ==
    [static |-> Config(CACHE_FIRST, STATIC_CACHE, Duration(7, 0), 100),
     models |-> Config(CACHE_FIRST, MODEL_CACHE, Duration(30, 0), 20),
     images |-> Config(STALE_WHILE_REVALIDATE, IMAGE_CACHE, Duration(7, 0), 200),
     api    |-> Config(NETWORK_FIRST, DYNAMIC_CACHE, Duration(0, 5 * 60 * 1000), 50),
     html   |-> Config(NETWORK_FIRST, DYNAMIC_CACHE, Duration(1, 0), 50)]

ROUTE_CONFIG ==
    [static |-> Config(CACHE_FIRST, STATIC_CACHE, Duration(7, 0), 100),
     models |-> Config(CACHE_FIRST, MODEL_CACHE, Duration(30, 0), 20),
     images |-> Config(STALE_WHILE_REVALIDATE, IMAGE_CACHE, Duration(7, 0), 200),
     api    |-> Config(NETWORK_FIRST, DYNAMIC_CACHE, Duration(0, 5 * 60 * 1000), 50),
     html   |-> Config(NETWORK_FIRST, DYNAMIC_CACHE, Duration(1, 0), 20)]

\* config.pattern.test(s)
PatternTest(route, s) ==
    CASE route = "static" ->
            EndsWithOneOf(s, {".css", ".js", ".png", ".jpg", ".jpeg", ".svg",
                              ".woff", ".woff2", ".ttf", ".eot"})
      [] route = "models" -> ContainsOneOf(s, {"tensorflow", "blazeface", "mobilenet"})
      [] route = "images" -> EndsWithOneOf(s, {".jpg", ".jpeg", ".png", ".webp", ".gif"})
      [] route = "api"    -> Contains(s, <<"/", "api", "/">>)
      [] route = "html"   -> EndsWithOneOf(s, {".html", "/"})

DefaultRouteAsHtml == Config(NETWORK_FIRST, DYNAMIC_CACHE, Duration(1, 0), 20)

DefaultRoute == Config(NETWORK_FIRST, DYNAMIC_CACHE, Duration(0, 5 * 60 * 1000), 50)

RouteMatches(route, u) == PatternTest(route, Pathname(u)) \/ PatternTest(route, Href(u))

\* the first route of `order` whose pattern matches u, or "" when none does
FirstMatch(order, u) ==
    IF \E i \in 1..Len(order) : RouteMatches(order[i], u)
    THEN order[CHOOSE i \in 1..Len(order) :
                 /\ RouteMatches(order[i], u)
                 /\ \A j \in 1..(i - 1) : ~RouteMatches(order[j], u)]
    ELSE ""

findMatchingRouteImagesFirst(u) ==
    LET name == FirstMatch(<<"images", "static", "models", "api", "html">>, u)
    IN  IF name = "" THEN DefaultRoute ELSE ROUTE_CONFIG[name]

findMatchingRoute(u) ==
    LET name == FirstMatch(RouteOrder, u)
    IN  IF name = "" THEN DefaultRoute ELSE ROUTE_CONFIG[name]

-----------------------------------------------------------------------------
(* The Cache API: a cache is a list of entries in insertion order; an      *)
(* entry is [key, hdr, body] where hdr is the value of the sw-cache-time   *)
(* header (<<>> when the response has none) and body names the response.   *)

Entry(k, h, b) == [key |-> k, hdr |-> h, body |-> b]

NoHeader == <<>>

\* cache.match(key): <<entry>> or <<>> (undefined)
CacheMatch(entries, k) ==
    IF \E i \in 1..Len(entries) : entries[i].key = k
    THEN << entries[CHOOSE i \in 1..Len(entries) : entries[i].key = k] >>
    ELSE << >>

\* cache.delete(key)
CacheDelete(entries, k) == SelectSeq(entries, LAMBDA e : e.key # k)

CachePutKeepsFirst(entries, e) ==
    IF \E i \in 1..Len(entries) : entries[i].key = e.key THEN entries ELSE Append(entries, e)

\* cache.put(key, response): replaces the entry with this key, at the end
CachePut(entries, e) == Append(CacheDelete(entries, e.key), e)

\* cache.keys()
CacheKeys(entries) == [i \in 1..Len(entries) |-> entries[i].key]

\* caches.open(name) creates the cache when it does not exist
CachesOpen(names, n) == IF n \in Range(names) THEN names ELSE Append(names, n)

\* caches.delete(name)
CachesDelete(names, n) == SelectSeq(names, LAMBDA x : x # n)

RECURSIVE PutAll(_, _)
PutAll(entries, es) ==
    IF es = <<>> THEN entries ELSE PutAll(CachePut(entries, Head(es)), Tail(es))

\* cache.addAll(urls): all the responses are stored, or none is
AddAll(entries, urls, bad) ==
    IF bad = {} THEN PutAll(entries, [i \in 1..Len(urls) |-> Entry(urls[i], NoHeader, 0)])
    ELSE entries

-----------------------------------------------------------------------------
(* sw.js:361-377 cleanupCache *)

keysToDeleteOffByOne(keys, maxEntries) ==
    IF Len(keys) > maxEntries THEN SubSeq(keys, 1, Len(keys) - maxEntries - 1) ELSE <<>>

\* keys.slice(0, keys.length - maxEntries) when keys.length > maxEntries
keysToDelete(keys, maxEntries) ==
    IF Len(keys) > maxEntries THEN SubSeq(keys, 1, Len(keys) - maxEntries) ELSE <<>>

RECURSIVE DeleteAll(_, _)
\* Promise.all(keysToDelete.map(key => cache.delete(key)))
DeleteAll(entries, ks) ==
    IF ks = <<>> THEN entries ELSE DeleteAll(CacheDelete(entries, Head(ks)), Tail(ks))

-----------------------------------------------------------------------------
(* State shared by the specifications *)

Slots == 1..MaxSlots

NoConfig == Config("", "", Epoch, 0)

\* what a strategy or handleRequest yields: a Response, undefined, or a thrown error
Outcome(k, s, o, h, b, m) ==
    [kind |-> k, src |-> s, ok |-> o, hdr |-> h, body |-> b, msg |-> m]

NoOutcome == Outcome("none", "", FALSE, NoHeader, 0, "")

\* a response read from a cache
FromCache(e) == Outcome("response", "cache", TRUE, e.hdr, e.body, "")

\* the response of the network to request `id`
FromNetwork(ok, id) == Outcome("response", "network", ok, NoHeader, id, "")

Undefined == Outcome("undefined", "", FALSE, NoHeader, 0, "")

Thrown(m) == Outcome("error", "", FALSE, NoHeader, 0, m)

\* the TypeError of a failed fetch
NetworkError == "Failed to fetch"

\* error.message of a rejected cache operation (caches.open, caches.delete,
\* cache.keys, cache.delete)
StorageError == "The operation failed"

\* a slot in which no fetch event is being handled
Idle ==
    [pc |-> "idle", id |-> 0, url |-> "", method |-> "", dest |-> "",
     intercepted |-> FALSE, cfg |-> NoConfig,
     cached |-> <<>>, looked |-> FALSE, at |-> Epoch, net |-> "", stamp |-> NoHeader, keys |-> <<>>,
     fetches |-> 0, strat |-> NoOutcome, result |-> NoOutcome,
     bg |-> "idle", bgstamp |-> NoHeader, evicted |-> <<>>, passes |-> 0,
     evictError |-> FALSE, listed |-> <<>>]

NoEv == [n |-> 0, writes |-> <<>>, before |-> <<>>, pass |-> "none"]

\* what is posted on a port, or handed to postMessage: {success: true},
\* {error: message}, {usage, quota, percentage}, null, or a promise of one of these
Value(k, m, u, q, pc) == [kind |-> k, message |-> m, usage |-> u, quota |-> q, percentage |-> pc]

\* a slot in which no message event is being handled
NoCommand ==
    [pc |-> "idle", id |-> 0, type |-> "", cacheName |-> "", models |-> <<>>,
     estimate |-> <<>>, pending |-> {}, nonOk |-> {}, detached |-> FALSE, outcome |-> "",
     thrown |-> "", replies |-> <<>>]

ModelSet == Range(MODEL_URLS)

\* the worker before its install event
Parsed(prev) ==
    [state |-> "parsed", pc |-> "", static |-> "pending",
     model |-> [u \in ModelSet |-> "pending"],
     promise |-> "pending", skipWaiting |-> FALSE, skipMessage |-> FALSE,
     purge |-> {}, purgeError |-> FALSE, listed |-> <<>>,
     before |-> [c \in AllCaches |-> <<>>],
     controller |-> IF prev THEN "previous" ELSE "none"]

\* an entry a previous version of the worker left in one of its caches (an entry an
\* earlier run of this version left in the dynamic cache was stamped by cacheResponse)
OldEntry == Entry(AppUrl("/"), NoHeader, 0)

-----------------------------------------------------------------------------
(* sw.js:123-153 the install listener *)

\* the promise handed to event.waitUntil: the handler catches every error
installPromiseUncaught(staticResult, modelResults) ==
    IF staticResult = "failed" \/ \E u \in DOMAIN modelResults : modelResults[u] = "fail"
    THEN "rejected"
    ELSE "resolved"

installPromise(staticResult, modelResults) == "resolved"

\* response.ok ? modelCache.put(url, response) : null, and .catch for a failed fetch
modelPut(entries, u, outcome) ==
    IF outcome = "ok" THEN CachePut(entries, Entry(u, NoHeader, 0)) ELSE entries

InstallEvent ==
    /\ sw.state = "parsed"
    /\ sw' = [sw EXCEPT !.state = "installing", !.pc = "static"]
    /\ UNCHANGED <<now, ticks, cacheNames, store, req, issued, policy, ev, cmd>>

\* caches.open(STATIC_CACHE); staticCache.addAll(STATIC_ASSETS); `bad` are the
\* assets whose fetch fails or whose response is not ok.  On success caches.open(MODEL_CACHE) follows and the
\* model fetches are issued; on failure the catch block ends the handler.
InstallStatic ==
    /\ sw.state = "installing" /\ sw.pc = "static"
    /\ \E bad \in SUBSET Range(STATIC_ASSETS) :
        /\ store' = [store EXCEPT ![STATIC_CACHE] = AddAll(@, STATIC_ASSETS, bad)]
        /\ IF bad = {}
           THEN /\ cacheNames' = CachesOpen(CachesOpen(cacheNames, STATIC_CACHE), MODEL_CACHE)
                /\ sw' = [sw EXCEPT !.static = "ok", !.pc = "models"]
           ELSE /\ cacheNames' = CachesOpen(cacheNames, STATIC_CACHE)
                /\ sw' = [sw EXCEPT !.static = "failed", !.pc = "settle",
                                    !.promise = installPromise("failed", sw.model)]
    /\ UNCHANGED <<now, ticks, req, issued, policy, ev, cmd>>

\* one fetch(url) of the model prefetch settles
InstallModel(u) ==
    /\ sw.state = "installing" /\ sw.pc = "models"
    /\ sw.model[u] = "pending"
    /\ \E outcome \in {"ok", "notok", "fail"} :
        /\ store' = [store EXCEPT ![MODEL_CACHE] = modelPut(@, u, outcome)]
        /\ sw' = [sw EXCEPT !.model[u] = outcome]
    /\ UNCHANGED <<now, ticks, cacheNames, req, issued, policy, ev, cmd>>

allSettledFirst(results) == \E u \in DOMAIN results : results[u] # "pending"

\* Promise.allSettled(promises) resolves once every promise has settled
allSettled(results) == \A u \in DOMAIN results : results[u] # "pending"

\* Promise.allSettled resolves; self.skipWaiting()
InstallFinish ==
    /\ sw.state = "installing" /\ sw.pc = "models"
    /\ allSettled(sw.model)
    /\ sw' = [sw EXCEPT !.skipWaiting = TRUE, !.pc = "settle",
                        !.promise = installPromise("ok", sw.model)]
    /\ UNCHANGED <<now, ticks, cacheNames, store, req, issued, policy, ev, cmd>>

\* the platform: the waitUntil promise settles; the worker is installed when it
\* resolved and redundant when it rejected
InstallSettled ==
    /\ sw.state = "installing" /\ sw.pc = "settle"
    /\ sw' = [sw EXCEPT !.state = IF sw.promise = "resolved" THEN "installed" ELSE "redundant",
                        !.pc = ""]
    /\ UNCHANGED <<now, ticks, cacheNames, store, req, issued, policy, ev, cmd>>

\* the platform: the pages the previous version controls are closed
ClientsClosed ==
    /\ sw.controller = "previous"
    /\ sw.state \in {"parsed", "installing", "installed"}
    /\ sw' = [sw EXCEPT !.controller = "none"]
    /\ UNCHANGED <<now, ticks, cacheNames, store, req, issued, policy, ev, cmd>>

-----------------------------------------------------------------------------
(* sw.js:552-558 the message listener, SKIP_WAITING *)

\* a page posts {type: 'SKIP_WAITING'} to the installing or waiting worker:
\* self.skipWaiting() (the call has no effect in the other states)
MessageSkipWaiting ==
    /\ sw.state \in {"installing", "installed"}
    /\ ~sw.skipMessage
    /\ sw' = [sw EXCEPT !.skipMessage = TRUE]
    /\ UNCHANGED <<now, ticks, cacheNames, store, req, issued, policy, ev, cmd>>

-----------------------------------------------------------------------------
(* sw.js:155-184 the activate listener, sw.js:379-396 cleanupOldCaches *)

validCaches == {STATIC_CACHE, DYNAMIC_CACHE, MODEL_CACHE, IMAGE_CACHE}

purgeListAll(names) == names

\* cacheNames.filter(cacheName => !validCaches.includes(cacheName))
purgeList(names) == SelectSeq(names, LAMBDA n : n \notin validCaches)

\* the platform: an installed worker is activated once no other version controls
\* a page, or at once when skipWaiting was called; the pages of the previous
\* version pass to this one
ActivateEvent ==
    /\ sw.state = "installed"
    /\ sw.skipWaiting \/ sw.skipMessage \/ sw.controller # "previous"
    /\ sw' = [sw EXCEPT !.state = "activating", !.pc = "keys",
                        !.controller = IF @ = "previous" THEN "this" ELSE @]
    /\ UNCHANGED <<now, ticks, cacheNames, store, req, issued, policy, ev, cmd>>

\* caches.keys() and the filter; the deletions are issued
ActivateKeys ==
    /\ sw.state = "activating" /\ sw.pc = "keys"
    /\ sw' = [sw EXCEPT !.pc = "delete", !.purge = Range(purgeList(cacheNames)),
                        !.listed = cacheNames, !.before = store]
    /\ UNCHANGED <<now, ticks, cacheNames, store, req, issued, policy, ev, cmd>>

\* one caches.delete(cacheName) completes (the deletions still pending when the
\* handler has gone on complete later)
ActivateDelete(n) ==
    /\ (sw.state = "activating" /\ sw.pc = "delete") \/ sw.state = "activated"
    /\ n \in sw.purge
    /\ cacheNames' = CachesDelete(cacheNames, n)
    /\ store' = [store EXCEPT ![n] = <<>>]
    /\ sw' = [sw EXCEPT !.purge = @ \ {n}]
    /\ UNCHANGED <<now, ticks, req, issued, policy, ev, cmd>>

\* one caches.delete(cacheName) rejects: Promise.all rejects at once, whatever
\* deletions are still pending, and the catch block of cleanupOldCaches logs it
ActivateDeleteFails(n) ==
    /\ sw.state = "activating" /\ sw.pc = "delete"
    /\ n \in sw.purge
    /\ sw' = [sw EXCEPT !.purge = @ \ {n}, !.purgeError = TRUE]
    /\ UNCHANGED <<now, ticks, cacheNames, store, req, issued, policy, ev, cmd>>

\* Promise.all settles and cleanupOldCaches resolves; self.clients.claim(); the
\* handler ends and the worker is activated
ActivateClaim ==
    /\ sw.state = "activating" /\ sw.pc = "delete"
    /\ sw.purge = {} \/ sw.purgeError
    /\ sw' = [sw EXCEPT !.state = "activated", !.pc = "", !.controller = "this"]
    /\ UNCHANGED <<now, ticks, cacheNames, store, req, issued, policy, ev, cmd>>

-----------------------------------------------------------------------------
(* The lifecycle alone: install and activation of this version next to the *)
(* caches of the previous one.                                             *)

RECURSIVE SubSeqs(_)
\* the sub-sequences of s
SubSeqs(s) ==
    IF s = <<>> THEN {<<>>}
    ELSE LET rest == SubSeqs(Tail(s))
         IN  rest \cup {<<Head(s)>> \o t : t \in rest}

InitLifecycle ==
    /\ now = StartTime
    /\ ticks = 0
    /\ \E prev \in BOOLEAN :
        /\ sw = Parsed(prev)
        /\ cacheNames \in (IF prev
                           THEN SubSeqs(<<"neural-static-v1.1.0", "neural-dynamic-v1.1.0",
                                          DYNAMIC_CACHE>>)
                           ELSE {<<>>})
    /\ store = [c \in AllCaches |->
                  IF c \notin Range(cacheNames) THEN <<>>
                  ELSE IF c \in OldCaches THEN <<OldEntry>>
                  ELSE <<Entry(OldEntry.key, ToISOString(StartTime), 0)>>]
    /\ req = [r \in Slots |-> Idle]
    /\ issued = 0
    /\ policy = NoConfig
    /\ ev = NoEv
    /\ cmd = [k \in Slots |-> NoCommand]

NextLifecycle ==
    \/ InstallEvent
    \/ InstallStatic
    \/ \E u \in ModelSet : InstallModel(u)
    \/ InstallFinish
    \/ InstallSettled
    \/ ClientsClosed
    \/ MessageSkipWaiting
    \/ ActivateEvent
    \/ ActivateKeys
    \/ \E n \in AllCaches : ActivateDelete(n)
    \/ ActivateClaim

SpecLifecycle == InitLifecycle /\ [][NextLifecycle]_vars

\* the lifecycle on a platform whose cache deletions can fail
NextLifecycleFaults ==
    \/ NextLifecycle
    \/ \E n \in AllCaches : ActivateDeleteFails(n)

SpecLifecycleFaults == InitLifecycle /\ [][NextLifecycleFaults]_vars

-----------------------------------------------------------------------------
(* sw.js:188-208 the fetch listener *)

Request(u, m, d) == [url |-> u, method |-> m, destination |-> d]

\* the requests the pages make
Requests ==
    { Request("https://cdn.example/app/logo.png", "GET", "image"),
      Request("https://app.example/photos/pic.webp", "GET", "image"),
      Request("https://app.example/photos/42", "GET", "image"),
      Request("https://app.example/", "GET", "document"),
      Request("https://app.example/index.html", "GET", "document"),
      Request("https://app.example/api/photos", "GET", ""),
      Request("https://app.example/api/photos", "POST", ""),
      Request("https://cdn.jsdelivr.net/npm/@tensorflow-models/blazeface@0.0.7/dist/blazeface.min.js",
              "GET", "script"),
      Request("https://storage.example/tensorflow/model.json", "GET", ""),
      Request("chrome-extension://abcdef/inject.js", "GET", "script") }

\* a slot is free when its handler and its background work have ended
Free(r) == req[r].pc \in {"idle", "done"} /\ req[r].bg = "idle"

\* requests take the lowest free slot
Lowest(r) == \A q \in Slots : q < r => ~Free(q)

interceptsEveryMethod(rq) == StartsWith(Url[rq.url].protocol, <<"http">>)

\* whether the listener goes on to respondWith
intercepts(rq) ==
    /\ rq.method = "GET"
    /\ StartsWith(Url[rq.url].protocol, <<"http">>)

Begin(id, rq, cfg) ==
    [Idle EXCEPT !.pc = "strategy", !.id = id, !.url = rq.url, !.method = rq.method,
                 !.dest = rq.destination, !.intercepted = TRUE, !.cfg = cfg]

Skipped(id, rq) ==
    [Idle EXCEPT !.pc = "done", !.id = id, !.url = rq.url, !.method = rq.method,
                 !.dest = rq.destination]

FetchEvent(r, rq) ==
    /\ sw.state = "activated"
    /\ issued < MaxRequests
    /\ Free(r) /\ Lowest(r)
    /\ issued' = issued + 1
    /\ req' = [req EXCEPT ![r] =
                  IF intercepts(rq)
                  THEN Begin(issued + 1, rq, findMatchingRoute(rq.url))
                  ELSE Skipped(issued + 1, rq)]
    /\ UNCHANGED <<now, ticks, cacheNames, store, sw, policy, ev, cmd>>

-----------------------------------------------------------------------------
(* sw.js:212-326 handleRequest and the strategies.  A handler advances     *)
(* from one await to the next; pc names the await it is suspended at.      *)

cacheTimeUnstampedAtStart(e) == IF e.hdr = NoHeader THEN StartTime ELSE ParseDate(e.hdr)

\* new Date(cachedResponse.headers.get('sw-cache-time') || 0)
cacheTime(e) == IF e.hdr = NoHeader THEN Epoch ELSE ParseDate(e.hdr)

isExpiredAtMaxAge(t, e, maxAge) == ~TimeGt(maxAge, TimeSub(t, cacheTime(e)))

\* Date.now() - cacheTime.getTime() > maxAge
isExpired(t, e, maxAge) == TimeGt(TimeSub(t, cacheTime(e)), maxAge)

ReturnSkipsCleanup(rec, out) == [rec EXCEPT !.pc = "done", !.strat = out, !.result = out]

\* the strategy returns: handleRequest goes on to its finally block
Return(rec, out) == [rec EXCEPT !.pc = "cleanup", !.strat = out, !.result = out]

Throw(rec, m) == [rec EXCEPT !.pc = "fallback", !.strat = Thrown(m)]

cacheOnlyMissFetches(rec) == [rec EXCEPT !.pc = "fetch", !.fetches = @ + 1]

\* cacheOnly when cache.match finds nothing
cacheOnlyMiss(rec) == Throw(rec, "No cached response available")

swrHitWaits(rec, hit) ==
    [rec EXCEPT !.pc = "await", !.cached = hit, !.looked = TRUE, !.bg = "fetch",
                !.fetches = @ + 1]

\* staleWhileRevalidate when cache.match finds a response: the fetch is issued and
\* the cached response is returned without waiting for it
swrHit(rec, hit) ==
    Return([rec EXCEPT !.cached = hit, !.looked = TRUE, !.bg = "fetch", !.fetches = @ + 1],
           FromCache(hit[1]))

\* the strategy starts: caches.open and, where the strategy looks first, cache.match
Strategy(r) ==
    LET rec == req[r]
        c   == rec.cfg
        hit == CacheMatch(store[c.cacheName], rec.url)
        fetching == [rec EXCEPT !.pc = "fetch", !.fetches = @ + 1]
    IN
    /\ rec.pc = "strategy"
    /\ cacheNames' = IF c.strategy \in {CACHE_FIRST, NETWORK_FIRST, STALE_WHILE_REVALIDATE,
                                        CACHE_ONLY}
                     THEN CachesOpen(cacheNames, c.cacheName)
                     ELSE cacheNames
    /\ req' = [req EXCEPT ![r] =
         CASE c.strategy = CACHE_FIRST ->
                IF hit # <<>> /\ ~isExpired(now, hit[1], c.maxAge)
                THEN Return([rec EXCEPT !.cached = hit, !.looked = TRUE, !.at = now],
                            FromCache(hit[1]))
                ELSE [fetching EXCEPT !.cached = hit, !.looked = TRUE,
                                      !.at = IF hit # <<>> THEN now ELSE Epoch]
           [] c.strategy = NETWORK_FIRST -> fetching
           [] c.strategy = STALE_WHILE_REVALIDATE ->
                IF hit # <<>>
                THEN swrHit(rec, hit)
                ELSE [rec EXCEPT !.pc = "await", !.looked = TRUE, !.bg = "fetch",
                                 !.fetches = @ + 1]
           [] c.strategy = CACHE_ONLY ->
                IF hit # <<>>
                THEN Return([rec EXCEPT !.cached = hit, !.looked = TRUE], FromCache(hit[1]))
                ELSE cacheOnlyMiss([rec EXCEPT !.looked = TRUE])
           [] OTHER -> fetching]
    /\ UNCHANGED <<now, ticks, store, sw, issued, policy, ev, cmd>>

\* cacheFirst after a failed fetch: the response read before the fetch, or the error
cacheFirstFreshOnly(rec) ==
    IF rec.cached # <<>> /\ ~isExpired(now, rec.cached[1], rec.cfg.maxAge)
    THEN Return(rec, FromCache(rec.cached[1]))
    ELSE Throw(rec, NetworkError)

cacheFirstCatch(rec) ==
    IF rec.cached # <<>> THEN Return(rec, FromCache(rec.cached[1]))
    ELSE Throw(rec, NetworkError)

shouldCacheAnyResponse(outcome) == outcome \in {"ok", "notok"}

\* if (networkResponse.ok), if (response.ok): whether the response is stored
shouldCache(outcome) == outcome = "ok"

\* await fetch(request) settles, in cacheFirst, networkFirst or for network-only
FetchSettles(r) ==
    LET rec == req[r]
        c   == rec.cfg
    IN
    /\ rec.pc = "fetch"
    /\ \E outcome \in {"ok", "notok", "fail"} :
        LET got == [rec EXCEPT !.net = outcome] IN
        req' = [req EXCEPT ![r] =
          CASE shouldCache(outcome) /\ c.strategy \in {CACHE_FIRST, NETWORK_FIRST} ->
                 [got EXCEPT !.pc = "put", !.stamp = ToISOString(now)]
            [] outcome = "ok" /\ c.strategy \notin {CACHE_FIRST, NETWORK_FIRST} ->
                 Return(got, FromNetwork(TRUE, rec.id))
            [] outcome = "notok" -> Return(got, FromNetwork(FALSE, rec.id))
            [] outcome = "fail" /\ c.strategy = CACHE_FIRST -> cacheFirstCatch(got)
            [] outcome = "fail" /\ c.strategy = NETWORK_FIRST -> [got EXCEPT !.pc = "match"]
            [] OTHER -> Throw(got, NetworkError)]
    /\ UNCHANGED <<now, ticks, cacheNames, store, sw, issued, policy, ev, cmd>>

\* await cacheResponse(cache, request, networkResponse.clone()) completes
Put(r) ==
    LET rec == req[r] IN
    /\ rec.pc = "put"
    /\ store' = [store EXCEPT ![rec.cfg.cacheName] =
                    CachePut(@, Entry(rec.url, rec.stamp, rec.id))]
    /\ req' = [req EXCEPT ![r] = Return([rec EXCEPT !.stamp = NoHeader],
                                        FromNetwork(TRUE, rec.id))]
    /\ UNCHANGED <<now, ticks, cacheNames, sw, issued, policy, ev, cmd>>

\* networkFirst after a failed fetch: what cache.match finds, or the error
networkFirstCatch(rec, hit) ==
    IF hit # <<>> THEN Return([rec EXCEPT !.cached = hit, !.looked = TRUE], FromCache(hit[1]))
    ELSE Throw([rec EXCEPT !.looked = TRUE], NetworkError)

\* await cache.match(request) in the catch block of networkFirst
Match(r) ==
    LET rec == req[r] IN
    /\ rec.pc = "match"
    /\ req' = [req EXCEPT ![r] =
                  networkFirstCatch(rec, CacheMatch(store[rec.cfg.cacheName], rec.url))]
    /\ UNCHANGED <<now, ticks, cacheNames, store, sw, issued, policy, ev, cmd>>

\* what networkPromise resolves to when its fetch fails:
\* .catch(error => { console.warn(...) }): the promise resolves to undefined
swrFailure(rec) == Return(rec, Undefined)

\* the fetch of staleWhileRevalidate settles; the handler takes its result when
\* it waits for it (no cached response)
BgSettles(r) ==
    LET rec == req[r] IN
    /\ rec.bg = "fetch"
    /\ \E outcome \in {"ok", "notok", "fail"} :
        LET got == [rec EXCEPT !.net = outcome,
                               !.bg = IF shouldCache(outcome) THEN "put" ELSE "idle",
                               !.bgstamp = IF shouldCache(outcome) THEN ToISOString(now)
                                           ELSE NoHeader]
        IN
        req' = [req EXCEPT ![r] =
          IF rec.pc # "await" THEN got
          ELSE IF outcome = "fail" THEN swrFailure(got)
          ELSE Return(got, FromNetwork(outcome = "ok", rec.id))]
    /\ UNCHANGED <<now, ticks, cacheNames, store, sw, issued, policy, ev, cmd>>

\* the cacheResponse staleWhileRevalidate does not wait for completes
BgPut(r) ==
    LET rec == req[r] IN
    /\ rec.bg = "put"
    /\ store' = [store EXCEPT ![rec.cfg.cacheName] =
                    CachePut(@, Entry(rec.url, rec.bgstamp, rec.id))]
    /\ req' = [req EXCEPT ![r] = [rec EXCEPT !.bg = "idle", !.bgstamp = NoHeader]]
    /\ UNCHANGED <<now, ticks, cacheNames, sw, issued, policy, ev, cmd>>

-----------------------------------------------------------------------------
(* sw.js:398-466 handleOfflineFallback *)

\* await cache.match('/') || await cache.match('/index.html')
cachedPage(entries) ==
    IF CacheMatch(entries, AppUrl("/")) # <<>> THEN CacheMatch(entries, AppUrl("/"))
    ELSE CacheMatch(entries, AppUrl("/index.html"))

handleOfflineFallbackForAll(dest, entries) ==
    IF dest = "image"
    THEN Outcome("response", "placeholder", TRUE, NoHeader, 0, "")
    ELSE Outcome("response", "offline-page", TRUE, NoHeader, 0, "")

handleOfflineFallbackNoPage(dest, entries) ==
    IF dest = "document"
    THEN Outcome("response", "offline-page", TRUE, NoHeader, 0, "")
    ELSE IF dest = "image"
    THEN Outcome("response", "placeholder", TRUE, NoHeader, 0, "")
    ELSE Thrown("Offline and no cached response available")

handleOfflineFallback(dest, entries) ==
    IF dest = "document"
    THEN IF cachedPage(entries) # <<>>
         THEN Outcome("response", "static-page", TRUE, cachedPage(entries)[1].hdr,
                      cachedPage(entries)[1].body, "")
         ELSE Outcome("response", "offline-page", TRUE, NoHeader, 0, "")
    ELSE IF dest = "image"
    THEN Outcome("response", "placeholder", TRUE, NoHeader, 0, "")
    ELSE Thrown("Offline and no cached response available")

\* the catch block of handleRequest
Fallback(r) ==
    LET rec == req[r] IN
    /\ rec.pc = "fallback"
    /\ cacheNames' = IF rec.dest = "document" THEN CachesOpen(cacheNames, STATIC_CACHE)
                     ELSE cacheNames
    /\ req' = [req EXCEPT ![r] =
                  [rec EXCEPT !.pc = "cleanup",
                              !.result = handleOfflineFallback(rec.dest, store[STATIC_CACHE])]]
    /\ UNCHANGED <<now, ticks, store, sw, issued, policy, ev, cmd>>

-----------------------------------------------------------------------------
(* sw.js:238-241 the finally block of handleRequest, sw.js:361-377 cleanupCache *)

\* caches.open(cacheName); cache.keys(); the deletions are issued.  `listed` is
\* what cache.keys() returned, each key with the response it had at that moment.
Cleanup(r) ==
    LET rec == req[r]
        c   == rec.cfg
        ks  == keysToDelete(CacheKeys(store[c.cacheName]), c.maxEntries)
    IN
    /\ rec.pc = "cleanup"
    /\ IF c.maxEntries = 0
       THEN /\ req' = [req EXCEPT ![r] = [rec EXCEPT !.pc = "done"]]
            /\ UNCHANGED cacheNames
       ELSE /\ cacheNames' = CachesOpen(cacheNames, c.cacheName)
            /\ req' = [req EXCEPT ![r] =
                          IF ks = <<>> THEN [rec EXCEPT !.pc = "done", !.passes = @ + 1]
                          ELSE [rec EXCEPT !.pc = "evict", !.keys = ks,
                                           !.listed = store[c.cacheName],
                                           !.passes = @ + 1]]
    /\ UNCHANGED <<now, ticks, store, sw, issued, policy, ev, cmd>>

\* the deletions complete; handleRequest settles
Evict(r) ==
    LET rec == req[r] IN
    /\ rec.pc = "evict"
    /\ store' = [store EXCEPT ![rec.cfg.cacheName] = DeleteAll(@, rec.keys)]
    /\ req' = [req EXCEPT ![r] = [rec EXCEPT !.pc = "done", !.keys = <<>>, !.listed = <<>>,
                                             !.evicted = rec.keys]]
    /\ UNCHANGED <<now, ticks, cacheNames, sw, issued, policy, ev, cmd>>

cleanupRethrows(rec) ==
    [rec EXCEPT !.pc = "done", !.keys = <<>>, !.listed = <<>>, !.evictError = TRUE,
                !.result = Thrown(StorageError)]

\* the catch block of cleanupCache: the error is logged and the function returns
cleanupCatch(rec) ==
    [rec EXCEPT !.pc = "done", !.keys = <<>>, !.listed = <<>>, !.evictError = TRUE]

\* caches.open(cacheName) or cache.keys() rejects
CleanupFails(r) ==
    LET rec == req[r] IN
    /\ rec.pc = "cleanup"
    /\ rec.cfg.maxEntries # 0
    /\ cacheNames' \in {cacheNames, CachesOpen(cacheNames, rec.cfg.cacheName)}
    /\ req' = [req EXCEPT ![r] = cleanupCatch([rec EXCEPT !.passes = @ + 1])]
    /\ UNCHANGED <<now, ticks, store, sw, issued, policy, ev, cmd>>

\* a cache.delete(key) rejects, and with it Promise.all; `gone` are the keys whose
\* deletion had completed
EvictFails(r) ==
    LET rec == req[r] IN
    /\ rec.pc = "evict"
    /\ \E gone \in SubSeqs(rec.keys) \ {rec.keys} :
        /\ store' = [store EXCEPT ![rec.cfg.cacheName] = DeleteAll(@, gone)]
        /\ req' = [req EXCEPT ![r] = cleanupCatch([rec EXCEPT !.evicted = gone])]
    /\ UNCHANGED <<now, ticks, cacheNames, sw, issued, policy, ev, cmd>>

-----------------------------------------------------------------------------
(* The clock *)

\* the clock advances by a millisecond, or by the max age of a cache-first route
Steps ==
    {Duration(0, 1)} \cup
    {ROUTE_CONFIG[n].maxAge :
        n \in {n \in Range(RouteOrder) : ROUTE_CONFIG[n].strategy = CACHE_FIRST}}

\* time passes between the requests; a handler runs in no time
Tick ==
    /\ ticks < MaxTicks
    /\ \A r \in Slots : Free(r)
    /\ \E d \in Steps : now' = TimeAdd(now, d)
    /\ ticks' = ticks + 1
    /\ UNCHANGED <<cacheNames, store, sw, req, issued, policy, ev, cmd>>

-----------------------------------------------------------------------------
(* The worker serving requests: it starts activated, after an install      *)
(* whose static populate succeeded or failed.  With the maxEntries of      *)
(* ROUTE_CONFIG (20 and more) and MaxRequests requests no cache grows past *)
(* its bound, so no deletion is issued here; SpecExec has them.            *)

Activated ==
    [Parsed(FALSE) EXCEPT !.state = "activated", !.controller = "this", !.promise = "resolved"]

InitServing ==
    /\ now = StartTime
    /\ ticks = 0
    /\ \E staticOk \in BOOLEAN :
        /\ cacheNames = IF staticOk THEN <<STATIC_CACHE, MODEL_CACHE>> ELSE <<STATIC_CACHE>>
        /\ \E ms \in (IF staticOk THEN {<<>>, MODEL_URLS} ELSE {<<>>}) :
            /\ sw = [Activated EXCEPT
                       !.static = IF staticOk THEN "ok" ELSE "failed",
                       !.model = [u \in ModelSet |->
                                    IF ~staticOk THEN "pending"
                                    ELSE IF u \in Range(ms) THEN "ok" ELSE "fail"],
                       !.skipWaiting = staticOk]
            /\ store = [c \in AllCaches |->
                       IF c = STATIC_CACHE
                       THEN AddAll(<<>>, STATIC_ASSETS, IF staticOk THEN {} ELSE {AppUrl("/")})
                       ELSE IF c = MODEL_CACHE
                       THEN PutAll(<<>>, [i \in 1..Len(ms) |-> Entry(ms[i], NoHeader, 0)])
                       ELSE <<>>]
    /\ req = [r \in Slots |-> Idle]
    /\ issued = 0
    /\ policy = NoConfig
    /\ ev = NoEv
    /\ cmd = [k \in Slots |-> NoCommand]

Next ==
    \/ \E r \in Slots, rq \in Requests : FetchEvent(r, rq)
    \/ \E r \in Slots : Strategy(r)
    \/ \E r \in Slots : FetchSettles(r)
    \/ \E r \in Slots : Put(r)
    \/ \E r \in Slots : Match(r)
    \/ \E r \in Slots : BgSettles(r)
    \/ \E r \in Slots : BgPut(r)
    \/ \E r \in Slots : Fallback(r)
    \/ \E r \in Slots : Cleanup(r)
    \/ Tick

Spec == InitServing /\ [][Next]_vars

-----------------------------------------------------------------------------
(* handleRequest (sw.js:212-242) called with a route configuration drawn   *)
(* from bounded sets: every strategy of CACHE_STRATEGIES, a strategy name  *)
(* the switch does not know, and small maxEntries.                         *)

ExecCache == IMAGE_CACHE

ExecStrategies ==
    {CACHE_FIRST, NETWORK_FIRST, STALE_WHILE_REVALIDATE, NETWORK_ONLY, CACHE_ONLY, "other"}

ExecRequests ==
    { Request("https://cdn.example/app/logo.png", "GET", "image"),
      Request("https://app.example/index.html", "GET", "document"),
      Request("https://app.example/api/photos", "GET", "") }

\* the entries earlier requests left in the cache: the first n of these
Earlier ==
    << Entry("https://cdn.example/app/logo.png", NoHeader, 0),
       Entry("https://app.example/index.html", ToISOString(StartTime), 0),
       Entry("https://app.example/photos/pic.webp", ToISOString(StartTime), 0) >>

InitExec ==
    /\ now = StartTime
    /\ ticks = 0
    /\ sw = [Activated EXCEPT !.static = "failed"]
    /\ cacheNames = <<STATIC_CACHE, ExecCache>>
    /\ \E n \in 0..MaxN :
        store = [c \in AllCaches |-> IF c = ExecCache THEN SubSeq(Earlier, 1, n) ELSE <<>>]
    /\ req = [r \in Slots |-> Idle]
    /\ issued = 0
    /\ \E s \in ExecStrategies, n \in 0..MaxN :
        policy = Config(s, ExecCache, Duration(7, 0), n)
    /\ ev = NoEv
    /\ cmd = [k \in Slots |-> NoCommand]

\* handleRequest(request, config)
HandleRequest(r, rq) ==
    /\ issued < MaxRequests
    /\ Free(r) /\ Lowest(r)
    /\ issued' = issued + 1
    /\ req' = [req EXCEPT ![r] = Begin(issued + 1, rq, policy)]
    /\ UNCHANGED <<now, ticks, cacheNames, store, sw, policy, ev, cmd>>

NextExec ==
    \/ \E r \in Slots, rq \in ExecRequests : HandleRequest(r, rq)
    \/ \E r \in Slots : Strategy(r)
    \/ \E r \in Slots : FetchSettles(r)
    \/ \E r \in Slots : Put(r)
    \/ \E r \in Slots : Match(r)
    \/ \E r \in Slots : BgSettles(r)
    \/ \E r \in Slots : BgPut(r)
    \/ \E r \in Slots : Fallback(r)
    \/ \E r \in Slots : Cleanup(r)
    \/ \E r \in Slots : Evict(r)
    \/ \E r \in Slots : CleanupFails(r)
    \/ \E r \in Slots : EvictFails(r)

SpecExec == InitExec /\ [][NextExec]_vars

-----------------------------------------------------------------------------
(* cleanupCache (sw.js:361-377) after sequences of writes: the writes and  *)
(* the pass run one after the other.                                       *)

EvictKeys ==
    { "https://app.example/photos/pic.webp",
      "https://cdn.example/app/logo.png",
      "https://app.example/photos/42" }

InitEvict ==
    /\ now = StartTime
    /\ ticks = 0
    /\ sw = Activated
    /\ cacheNames = <<ExecCache>>
    /\ store = [c \in AllCaches |-> <<>>]
    /\ req = [r \in Slots |-> Idle]
    /\ issued = 0
    /\ policy = NoConfig
    /\ \E n \in 1..MaxN : ev = [NoEv EXCEPT !.n = n]
    /\ cmd = [k \in Slots |-> NoCommand]

\* cache.put(key, response)
EvWrite(k) ==
    /\ Len(ev.writes) < MaxWrites
    /\ store' = [store EXCEPT ![ExecCache] = CachePut(@, Entry(k, NoHeader, Len(ev.writes) + 1))]
    /\ ev' = [ev EXCEPT !.writes = Append(@, k), !.pass = "none", !.before = <<>>]
    /\ UNCHANGED <<now, ticks, cacheNames, sw, req, issued, policy, cmd>>

\* cleanupCache(cacheName, maxEntries)
EvPass ==
    /\ ev.pass = "none"
    /\ store' = [store EXCEPT ![ExecCache] =
                    DeleteAll(@, keysToDelete(CacheKeys(@), ev.n))]
    /\ ev' = [ev EXCEPT !.pass = "done", !.before = CacheKeys(store[ExecCache])]
    /\ UNCHANGED <<now, ticks, cacheNames, sw, req, issued, policy, cmd>>

NextEvict ==
    \/ \E k \in EvictKeys : EvWrite(k)
    \/ EvPass

SpecEvict == InitEvict /\ [][NextEvict]_vars

-----------------------------------------------------------------------------
(* The dynamic cache shared by the api, html and default routes            *)
(* (sw.js:105-118, 338-344): the worker serves requests of the three       *)
(* routes with the cache already holding what earlier api and default      *)
(* requests wrote, so the bound of the html route is reached.              *)

\* the i-th of the entries that earlier requests of the api route (odd i) and of
\* the default route (even i) wrote with cacheResponse
SharedEntry(i) ==
    Entry((IF i % 2 = 1 THEN AppUrl("/api/items/") ELSE AppUrl("/items/")) \o ToString(i),
          ToISOString(StartTime), 0)

SharedRequests ==
    { Request("https://app.example/index.html", "GET", "document"),
      Request("https://app.example/api/photos", "GET", ""),
      Request("https://app.example/photos/42", "GET", "image") }

InitShared ==
    /\ now = StartTime
    /\ ticks = 0
    /\ sw = [Activated EXCEPT !.static = "failed"]
    /\ cacheNames = <<STATIC_CACHE, DYNAMIC_CACHE>>
    /\ \E n \in MinEarlier..MaxEarlier :
        store = [c \in AllCaches |->
                    IF c = DYNAMIC_CACHE THEN [i \in 1..n |-> SharedEntry(i)] ELSE <<>>]
    /\ req = [r \in Slots |-> Idle]
    /\ issued = 0
    /\ policy = NoConfig
    /\ ev = NoEv
    /\ cmd = [k \in Slots |-> NoCommand]

NextShared ==
    \/ \E r \in Slots, rq \in SharedRequests : FetchEvent(r, rq)
    \/ \E r \in Slots : Strategy(r)
    \/ \E r \in Slots : FetchSettles(r)
    \/ \E r \in Slots : Put(r)
    \/ \E r \in Slots : Match(r)
    \/ \E r \in Slots : Fallback(r)
    \/ \E r \in Slots : Cleanup(r)
    \/ \E r \in Slots : Evict(r)
    \/ \E r \in Slots : CleanupFails(r)
    \/ \E r \in Slots : EvictFails(r)

SpecShared == InitShared /\ [][NextShared]_vars

-----------------------------------------------------------------------------
(* sw.js:552-626 the message listener and the commands of the pages.  Each *)
(* command comes with a port (event.ports[0]) for the reply.               *)

Null == Value("null", "", 0, 0, 0)

Success == Value("success", "", 0, 0, 0)

Error(m) == Value("error", m, 0, 0, 0)

\* the pending promise an async function hands to its caller; `message` keeps the
\* kind of the value it will resolve to
PromiseOf(v) == Value("promise", v.kind, v.usage, v.quota, v.percentage)

\* Math.round((usage / quota) * 100), for quota > 0
Percentage(usage, quota) == (200 * usage + quota) \div (2 * quota)

\* what navigator.storage.estimate() resolves to, where the platform has it
Estimates == {[usage |-> 1, quota |-> 3], [usage |-> 50, quota |-> 100]}

\* what the promise of getCacheUsage() resolves to; estimate is <<>> when the
\* platform does not expose navigator.storage.estimate
getCacheUsage(estimate) ==
    IF estimate # <<>>
    THEN Value("usage", "", estimate[1].usage, estimate[1].quota,
               Percentage(estimate[1].usage, estimate[1].quota))
    ELSE Null

\* port.postMessage(v) queues the structured clone of v on the port; a promise
\* cannot be cloned and the call throws a DataCloneError
postMessage(rec, v) ==
    IF v.kind # "promise" THEN [rec EXCEPT !.replies = Append(@, v)]
    ELSE [rec EXCEPT !.thrown = "DataCloneError"]

thenCatchNoCatch(rec, outcome, m) ==
    [(IF outcome = "ok" THEN postMessage(rec, Success) ELSE rec)
        EXCEPT !.pc = "done", !.outcome = outcome]

\* .then(() => port.postMessage({ success: true }))
\* .catch(error => port.postMessage({ error: error.message }))
thenCatch(rec, outcome, m) ==
    [postMessage(rec, IF outcome = "ok" THEN Success ELSE Error(m))
        EXCEPT !.pc = "done", !.outcome = outcome]

\* event.data of a command, and the storage estimate of the platform it runs on
Command(t, n, ms, est) == [type |-> t, cacheName |-> n, models |-> ms, estimate |-> est]

Commands ==
    {Command("CLEAR_CACHE", n, <<>>, <<>>) : n \in {STATIC_CACHE, MODEL_CACHE, DYNAMIC_CACHE}}
    \cup {Command("PREFETCH_MODELS", "", ms, <<>>) : ms \in {<<>>, <<MODEL_URLS[1]>>, MODEL_URLS}}
    \cup {Command("GET_CACHE_USAGE", "", <<>>, est) : est \in {<<>>} \cup {<<e>> : e \in Estimates}}

\* the listener runs up to the first await of the command's function
MessageEvent(k, c) ==
    LET rec == [NoCommand EXCEPT !.id = issued + 1, !.type = c.type,
                                 !.cacheName = c.cacheName, !.models = c.models,
                                 !.estimate = c.estimate]
    IN
    /\ sw.state = "activated"
    /\ issued < MaxRequests
    /\ cmd[k].pc \in {"idle", "done"}
    /\ \A j \in Slots : j < k => cmd[j].pc \notin {"idle", "done"}
    /\ issued' = issued + 1
    /\ cmd' = [cmd EXCEPT ![k] =
          CASE c.type = "CLEAR_CACHE" -> [rec EXCEPT !.pc = "delete"]
            [] c.type = "PREFETCH_MODELS" -> [rec EXCEPT !.pc = "open"]
            [] c.type = "GET_CACHE_USAGE" ->
                 [postMessage(rec, PromiseOf(getCacheUsage(c.estimate))) EXCEPT !.pc = "done"]
            [] OTHER -> [rec EXCEPT !.pc = "done"]]
    /\ UNCHANGED <<now, ticks, cacheNames, store, sw, req, policy, ev>>

\* clearSpecificCache: await caches.delete(cacheName) settles.  A Cache object
\* opened before the deletion no longer belongs to the storage (detached).
ClearSettles(k) ==
    LET name == cmd[k].cacheName IN
    /\ cmd[k].pc = "delete"
    /\ \E outcome \in {"ok", "error"} :
        /\ cacheNames' = IF outcome = "ok" THEN CachesDelete(cacheNames, name) ELSE cacheNames
        /\ store' = IF outcome = "ok" THEN [store EXCEPT ![name] = <<>>] ELSE store
        /\ cmd' = [j \in Slots |->
                    IF j = k THEN thenCatch(cmd[k], outcome, StorageError)
                    ELSE IF outcome = "ok" /\ name = MODEL_CACHE /\ cmd[j].pc = "fetch"
                    THEN [cmd[j] EXCEPT !.detached = TRUE]
                    ELSE cmd[j]]
    /\ UNCHANGED <<now, ticks, sw, req, issued, policy, ev>>

\* prefetchModels: await caches.open(MODEL_CACHE) settles; the fetches are issued
PrefetchOpen(k) ==
    /\ cmd[k].pc = "open"
    /\ \E outcome \in {"ok", "error"} :
        /\ cacheNames' = IF outcome = "ok" THEN CachesOpen(cacheNames, MODEL_CACHE)
                         ELSE cacheNames
        /\ cmd' = [cmd EXCEPT ![k] =
                     IF outcome = "ok"
                     THEN [@ EXCEPT !.pc = "fetch", !.pending = Range(cmd[k].models)]
                     ELSE thenCatch(@, outcome, StorageError)]
    /\ UNCHANGED <<now, ticks, store, sw, req, issued, policy, ev>>

\* if (response.ok) await cache.put(url, response); a failed fetch is caught
prefetchPut(entries, u, outcome, id) ==
    IF outcome = "ok" THEN CachePut(entries, Entry(u, NoHeader, id)) ELSE entries

\* one fetch(url) of prefetchModels settles
PrefetchFetch(k, u) ==
    /\ cmd[k].pc = "fetch"
    /\ u \in cmd[k].pending
    /\ \E outcome \in {"ok", "notok", "fail"} :
        /\ store' = IF cmd[k].detached THEN store
                    ELSE [store EXCEPT ![MODEL_CACHE] = prefetchPut(@, u, outcome, cmd[k].id)]
        /\ cmd' = [cmd EXCEPT ![k].pending = @ \ {u},
                              ![k].nonOk = IF outcome = "notok" THEN @ \cup {u} ELSE @]
    /\ UNCHANGED <<now, ticks, cacheNames, sw, req, issued, policy, ev>>

\* await Promise.allSettled(fetchPromises) resolves; prefetchModels resolves
PrefetchFinish(k) ==
    /\ cmd[k].pc = "fetch"
    /\ cmd[k].pending = {}
    /\ cmd' = [cmd EXCEPT ![k] = thenCatch(@, "ok", "")]
    /\ UNCHANGED <<now, ticks, cacheNames, store, sw, req, issued, policy, ev>>

NextMessages ==
    \/ \E k \in Slots, c \in Commands : MessageEvent(k, c)
    \/ \E k \in Slots : ClearSettles(k)
    \/ \E k \in Slots : PrefetchOpen(k)
    \/ \E k \in Slots, u \in ModelSet : PrefetchFetch(k, u)
    \/ \E k \in Slots : PrefetchFinish(k)

SpecMessages == InitServing /\ [][NextMessages]_vars

\* the platform settles every promise of a cache operation or a fetch in the end
SpecMessagesFair == SpecMessages /\ WF_vars(NextMessages)

-----------------------------------------------------------------------------
(* Properties *)

\* the keys of a write log, each once, in the order of their last write
RECURSIVE LastWrites(_)
LastWrites(w) ==
    IF w = <<>> THEN <<>>
    ELSE IF Head(w) \in Range(Tail(w)) THEN LastWrites(Tail(w))
    ELSE <<Head(w)>> \o LastWrites(Tail(w))

\* the last n elements of s (all of s when it has fewer)
Newest(s, n) == IF Len(s) > n THEN SubSeq(s, Len(s) - n + 1, Len(s)) ELSE s

StampedLookup(r) ==
    /\ req[r].cfg.strategy = CACHE_FIRST
    /\ req[r].looked
    /\ req[r].cached # <<>>
    /\ req[r].cached[1].hdr # NoHeader

\* t0 + d for the entry a request found
Deadline(r) == TimeAdd(ParseDate(req[r].cached[1].hdr), req[r].cfg.maxAge)

Settled(r) == req[r].strat.kind # "none"

Bypassing(rec) ==
    \/ rec.method # "GET"
    \/ Url[rec.url].protocol \notin {<<"http", ":">>, <<"http", "s", ":">>}

\* C4: a request whose method is not GET or whose scheme is not http(s) is never
\* intercepted: every step that changes its slot leaves it unclassified, not
\* responded to and without a fetch, and leaves every cache as it was.
C4_BypassUntouched ==
    [][ \A r \in Slots :
          (req'[r] # req[r] /\ req'[r].url # "" /\ Bypassing(req'[r]))
          => /\ req'[r].pc = "done"
             /\ ~req'[r].intercepted
             /\ req'[r].cfg = NoConfig
             /\ req'[r].fetches = 0
             /\ req'[r].result = NoOutcome
             /\ UNCHANGED <<cacheNames, store>> ]_vars

\* C4 witness: a POST request has passed the listener
C4_Witness ==
    \E r \in Slots :
        /\ req[r].method = "POST"
        /\ req[r].pc = "done"
        /\ ~req[r].intercepted

\* the position of the earliest route, in the order static, models, images, api,
\* html, whose pattern matches u (0 when none matches)
Earliest(u) ==
    LET order == <<"static", "models", "images", "api", "html">>
        hits  == {i \in 1..5 : RouteMatches(order[i], u)}
    IN  IF hits = {} THEN 0 ELSE CHOOSE i \in hits : \A j \in hits : i <= j

\* C5: classification is first-match-wins over static, models, images, api, html:
\* an intercepted request has the policy of the earliest route its URL matches, so
\* https://cdn.example/app/logo.png has the static cache-first policy.
C5_FirstMatchWins ==
    \A r \in Slots : req[r].intercepted =>
        /\ Earliest(req[r].url) = 1 => req[r].cfg = ROUTE_CONFIG.static
        /\ Earliest(req[r].url) = 2 => req[r].cfg = ROUTE_CONFIG.models
        /\ Earliest(req[r].url) = 3 => req[r].cfg = ROUTE_CONFIG.images
        /\ Earliest(req[r].url) = 4 => req[r].cfg = ROUTE_CONFIG.api
        /\ Earliest(req[r].url) = 5 => req[r].cfg = ROUTE_CONFIG.html
        /\ req[r].url = "https://cdn.example/app/logo.png"
              => /\ req[r].cfg.strategy = CACHE_FIRST
                 /\ req[r].cfg.cacheName = STATIC_CACHE

\* C5 witness: logo.png, which the static and the image patterns match, classified
C5_Witness ==
    \E r \in Slots :
        /\ req[r].intercepted
        /\ req[r].url = "https://cdn.example/app/logo.png"
        /\ RouteMatches("static", req[r].url) /\ RouteMatches("images", req[r].url)
        /\ req[r].cfg.strategy = CACHE_FIRST

\* C6: when the fetch of a required static asset fails, the install step fails: the
\* new version never becomes installed or active, and a previously active version
\* stays in control.
C6_InstallAllOrNothing ==
    sw.static = "failed" =>
        /\ sw.state \in {"installing", "redundant"}
        /\ sw.controller # "this"

\* C7: when the static populate succeeded, every model URL whose fetch succeeded is
\* in the model cache once the prefetch has settled, whatever happened to the other
\* model fetches, and the install step succeeds.
C7_ModelPrefetchIsolated ==
    /\ \A u \in ModelSet :
          sw.model[u] = "ok" => CacheMatch(store[MODEL_CACHE], u) # <<>>
    /\ ( /\ sw.static = "ok"
         /\ \A u \in ModelSet : sw.model[u] # "pending"
         /\ sw.pc # "models" )
       => sw.promise = "resolved" /\ sw.state # "redundant"

\* C7 witness: installed, one model fetch failed and the other model is in the cache
C7_Witness ==
    /\ sw.state = "installed"
    /\ sw.static = "ok"
    /\ \E u, v \in ModelSet :
          /\ sw.model[u] = "fail"
          /\ sw.model[v] = "ok"
          /\ CacheMatch(store[MODEL_CACHE], v) # <<>>
          /\ CacheMatch(store[MODEL_CACHE], u) = <<>>

\* the allow-list of the current version
AllowList ==
    {"neural-static-v1.2.0", "neural-dynamic-v1.2.0", "neural-models-v1.2.0",
     "neural-images-v1.2.0"}

C10_ImagePlaceholder ==
    \A r \in Slots :
        ( /\ req[r].intercepted
          /\ req[r].dest = "image"
          /\ req[r].pc = "done"
          /\ req[r].net = "fail"
          /\ req[r].cached = <<>> )
        => req[r].result = Outcome("response", "placeholder", TRUE, NoHeader, 0, "")

\* a navigation to the root or the index page whose fetch failed, handled to its end
NavigationOffline(r) ==
    /\ req[r].intercepted
    /\ req[r].method = "GET"
    /\ req[r].dest = "document"
    /\ req[r].url \in {"https://app.example/", "https://app.example/index.html"}
    /\ req[r].net = "fail"
    /\ req[r].pc = "done"

\* the root entry of the static cache, else its index entry, else <<>>
RootOrIndex ==
    IF CacheMatch(store[STATIC_CACHE], "https://app.example/") # <<>>
    THEN CacheMatch(store[STATIC_CACHE], "https://app.example/")
    ELSE CacheMatch(store[STATIC_CACHE], "https://app.example/index.html")

\* C11: a GET navigation (destination 'document') for '/' or '/index.html' whose
\* network fetch fails always receives a response and never a failure: the copy the
\* dynamic cache holds if there is one, otherwise the root/index entry of the static
\* cache, otherwise the inline offline page.  It holds after a successful install
\* and after a failed one alike.
C11_OfflineNavigation ==
    \A r \in Slots : NavigationOffline(r) =>
        /\ req[r].cfg.cacheName = DYNAMIC_CACHE
        /\ req[r].looked
        /\ req[r].result.kind = "response"
        /\ req[r].cached # <<>> => req[r].result = FromCache(req[r].cached[1])
        /\ (req[r].cached = <<>> /\ RootOrIndex # <<>>) =>
               /\ req[r].result.src = "static-page"
               /\ req[r].result.body = RootOrIndex[1].body
        /\ (req[r].cached = <<>> /\ RootOrIndex = <<>>) =>
               req[r].result.src = "offline-page"

\* C11 witness: after a successful install, an offline navigation with no copy in
\* the dynamic cache was answered with the root entry of the static cache
C11_Witness ==
    /\ sw.static = "ok"
    /\ \E r \in Slots :
          /\ NavigationOffline(r)
          /\ req[r].cached = <<>>
          /\ RootOrIndex # <<>>
          /\ req[r].result.src = "static-page"

\* C12: staleWhileRevalidate with an entry present for the key returns that entry,
\* whatever its age and whatever the outcome of the fetch, in the step that finds
\* it, while the fetch is still in flight; when the background fetch fails the
\* failure does not reach the caller (the response stays the cached entry) and
\* no cache changes.
C12_StaleServedAtOnce ==
    [][ \A r \in Slots :
          ( /\ req'[r].cfg.strategy = STALE_WHILE_REVALIDATE
            /\ req'[r].looked
            /\ req'[r].cached # <<>> )
          => /\ req'[r].strat = FromCache(req'[r].cached[1])
             /\ req'[r].result = FromCache(req'[r].cached[1])
             /\ req'[r].pc \in {"cleanup", "evict", "done"}
             /\ ~req[r].looked => (req'[r].bg = "fetch" /\ req'[r].net = "")
             /\ (req[r].bg = "fetch" /\ req'[r].bg # "fetch" /\ req'[r].net = "fail")
                   => /\ req'[r].bg = "idle"
                      /\ UNCHANGED <<cacheNames, store>> ]_vars

\* C12 witness: an entry older than the max age was served, the background fetch
\* failed afterwards, and the entry is still the stored one
C12_Witness ==
    \E r \in Slots :
        /\ req[r].cfg.strategy = STALE_WHILE_REVALIDATE
        /\ req[r].cached # <<>>
        /\ req[r].cached[1].hdr # NoHeader
        /\ TimeGt(TimeSub(now, cacheTime(req[r].cached[1])), req[r].cfg.maxAge)
        /\ req[r].pc = "done"
        /\ req[r].net = "fail"
        /\ req[r].result = FromCache(req[r].cached[1])
        /\ CacheMatch(store[req[r].cfg.cacheName], req[r].url) = req[r].cached

\* C13: staleWhileRevalidate with no entry for the key waits for the fetch and
\* yields its outcome: the response when the fetch succeeds, and the failure, as a
\* thrown error and not as undefined, when the fetch fails.
C13_SwrMissYieldsFetchOutcome ==
    \A r \in Slots :
        ( /\ req[r].cfg.strategy = STALE_WHILE_REVALIDATE
          /\ req[r].looked
          /\ req[r].cached = <<>> )
        => /\ req[r].net = "" => (req[r].pc = "await" /\ ~Settled(r))
           /\ req[r].net = "ok" => req[r].strat = FromNetwork(TRUE, req[r].id)
           /\ req[r].net = "notok" => req[r].strat = FromNetwork(FALSE, req[r].id)
           /\ req[r].net = "fail" => req[r].strat = Thrown(NetworkError)

\* C14: a request executed under NETWORK_ONLY gets the response of its fetch, or
\* the failure of its fetch, as it is; no step of its handling opens, reads,
\* writes or evicts a cache, and no fallback response replaces the failure.
C14_NetworkOnlyVerbatim ==
    [][ \A r \in Slots :
          (req'[r].cfg.strategy = NETWORK_ONLY /\ req'[r] # req[r])
          => /\ UNCHANGED <<cacheNames, store>>
             /\ ~req'[r].looked
             /\ req'[r].keys = <<>> /\ req'[r].evicted = <<>>
             /\ req[r].pc = "cleanup" => req[r].cfg.maxEntries = 0
             /\ req'[r].pc = "done" =>
                   req'[r].result = IF req'[r].net = "fail" THEN Thrown(NetworkError)
                                    ELSE FromNetwork(req'[r].net = "ok", req'[r].id) ]_vars

\* C15: a GET request for a URL that contains tensorflow, blazeface or mobilenet,
\* as every URL of MODEL_URLS does, is handled under the model policy: cache-first
\* against the model cache with a max age of 30 days and 20 max entries.
C15_ModelPolicy ==
    /\ \A i \in 1..Len(MODEL_URLS) : MODEL_URLS[i] \in DOMAIN Url =>
          ContainsOneOf(Href(MODEL_URLS[i]), {"tensorflow", "blazeface", "mobilenet"})
    /\ \A r \in Slots :
          ( /\ req[r].intercepted
            /\ ContainsOneOf(Href(req[r].url), {"tensorflow", "blazeface", "mobilenet"}) )
          => req[r].cfg = Config(CACHE_FIRST, MODEL_CACHE, Duration(30, 0), 20)

\* C16: classification is total: every GET request over http(s) is intercepted and
\* has exactly one policy, that of a route of ROUTE_CONFIG or the default; a URL no
\* route pattern matches has the default policy (network-first, dynamic cache,
\* 5 minutes, 50 entries); no strategy starts without a policy.
C16_ClassificationTotal ==
    \A r \in Slots :
        /\ (req[r].url # "" /\ ~Bypassing(req[r])) =>
              /\ req[r].intercepted
              /\ req[r].cfg \in {ROUTE_CONFIG[n] : n \in Range(RouteOrder)}
                      \cup {Config(NETWORK_FIRST, DYNAMIC_CACHE, Duration(0, 300000), 50)}
              /\ (\A n \in Range(RouteOrder) : ~RouteMatches(n, req[r].url)) =>
                    req[r].cfg = Config(NETWORK_FIRST, DYNAMIC_CACHE, Duration(0, 300000), 50)
        /\ req[r].pc \notin {"idle", "done"} => req[r].cfg # NoConfig
        /\ req[r].fetches > 0 => req[r].cfg # NoConfig

\* C16 witness: a request no route pattern matches is handled under the default policy
C16_Witness ==
    \E r \in Slots :
        /\ req[r].url = "https://app.example/photos/42"
        /\ \A n \in Range(RouteOrder) : ~RouteMatches(n, req[r].url)
        /\ req[r].intercepted
        /\ req[r].cfg.strategy = NETWORK_FIRST
        /\ req[r].cfg.maxEntries = 50
        /\ req[r].pc = "done"

\* C17: the install handler calls skipWaiting only when the static populate
\* succeeded and only after every model prefetch has settled, succeeded or failed;
\* it does not call it on an install whose static populate failed, and it has called
\* it by the time a successful install's handler ends.
C17_SkipWaitingAfterPrefetch ==
    /\ sw.skipWaiting =>
          /\ sw.static = "ok"
          /\ \A u \in ModelSet : sw.model[u] \in {"ok", "notok", "fail"}
    /\ sw.static = "failed" => ~sw.skipWaiting
    /\ (sw.static = "ok" /\ sw.state \in {"installed", "activating", "activated"})
          => sw.skipWaiting

\* C17 witness: skipWaiting called during an install in which one model prefetch
\* failed and the other succeeded
C17_Witness ==
    /\ sw.state = "installing"
    /\ sw.skipWaiting
    /\ \E u, v \in ModelSet : sw.model[u] = "fail" /\ sw.model[v] = "ok"

\* C18: every CLEAR_CACHE and PREFETCH_MODELS command gets exactly one reply on its
\* port: none while it is being handled, one when it has ended, {success: true}
\* when the operation completed and an error description otherwise; and every such
\* command does get its reply in the end.
C18_OneReplyPerCommand ==
    /\ [](\A k \in Slots :
            cmd[k].type \in {"CLEAR_CACHE", "PREFETCH_MODELS"} =>
                /\ cmd[k].pc # "done" => cmd[k].replies = <<>>
                /\ cmd[k].pc = "done" =>
                      /\ Len(cmd[k].replies) = 1
                      /\ cmd[k].thrown = ""
                      /\ cmd[k].outcome = "ok" => cmd[k].replies[1].kind = "success"
                      /\ cmd[k].outcome # "ok" =>
                            /\ cmd[k].replies[1].kind = "error"
                            /\ cmd[k].replies[1].message # "")
    /\ \A k \in Slots, i \in 1..MaxRequests :
          (cmd[k].id = i /\ cmd[k].type \in {"CLEAR_CACHE", "PREFETCH_MODELS"})
             ~> (cmd[k].id = i /\ Len(cmd[k].replies) = 1)

\* C18 witness: a prefetch command answered with the acknowledgment after one of
\* its fetches failed, and a clear command answered with an error description
C18_Witness ==
    \E k, j \in Slots :
        /\ cmd[k].type = "PREFETCH_MODELS" /\ cmd[k].pc = "done"
        /\ Len(cmd[k].models) = 2
        /\ Len(store[MODEL_CACHE]) < 2
        /\ cmd[k].replies = <<Success>>
        /\ cmd[j].type = "CLEAR_CACHE" /\ cmd[j].pc = "done"
        /\ cmd[j].replies = <<Error(StorageError)>>

\* C19: the GET_CACHE_USAGE command is answered with {usage, quota, percentage}
\* when the platform exposes a storage estimate and with null when it does not; what
\* is posted is the computed value and not a promise of it.
C19_UsageReply ==
    \A k \in Slots :
        (cmd[k].type = "GET_CACHE_USAGE" /\ cmd[k].pc = "done") =>
            /\ Len(cmd[k].replies) = 1
            /\ cmd[k].replies[1].kind # "promise"
            /\ cmd[k].estimate = <<>> => cmd[k].replies[1].kind = "null"
            /\ cmd[k].estimate # <<>> =>
                  /\ cmd[k].replies[1].kind = "usage"
                  /\ cmd[k].replies[1].usage = cmd[k].estimate[1].usage
                  /\ cmd[k].replies[1].quota = cmd[k].estimate[1].quota
                  /\ cmd[k].replies[1].percentage =
                        Percentage(cmd[k].estimate[1].usage, cmd[k].estimate[1].quota)

\* C20: every entry of every cache of this version carries the sw-cache-time stamp:
\* the static populate and the model prefetch of install, the PREFETCH_MODELS
\* command and the writes of the strategies all stamp what they store, so no cache
\* ever holds an entry without the stamp.
C20_EveryEntryStamped ==
    \A c \in {"neural-static-v1.2.0", "neural-dynamic-v1.2.0", "neural-models-v1.2.0",
              "neural-images-v1.2.0"} :
        \A i \in 1..Len(store[c]) : store[c][i].hdr # NoHeader

\* C21: in cacheFirst, networkFirst and staleWhileRevalidate the eviction pass of
\* a request begins only after the cache write of that request has completed, so
\* once the requests and the background writes they started have all ended, the
\* cache holds at most maxEntries entries (when no eviction pass met an error).
C21_EvictAfterWrite ==
    /\ \A r \in Slots :
          ( /\ req[r].cfg.strategy \in {CACHE_FIRST, NETWORK_FIRST, STALE_WHILE_REVALIDATE}
            /\ req[r].pc \in {"evict", "done"} )
          => req[r].bg = "idle"
    /\ ( /\ \A r \in Slots : Free(r) /\ ~req[r].evictError
         /\ \E r \in Slots :
               /\ req[r].pc = "done"
               /\ req[r].cfg.strategy \in {CACHE_FIRST, NETWORK_FIRST, STALE_WHILE_REVALIDATE}
               /\ req[r].cfg.maxEntries > 0 )
       => Len(store[policy.cacheName]) <= policy.maxEntries

\* C22: every intercepted request runs exactly one eviction pass on the cache of
\* its route before its outcome is delivered, whatever the strategy and whether the
\* outcome is a network or cached response, a fallback response or a propagated
\* failure.
C22_OnePassPerRequest ==
    \A r \in Slots : req[r].intercepted =>
        /\ req[r].pc = "done" => req[r].passes = 1
        /\ req[r].pc \in {"strategy", "fetch", "put", "match", "await", "fallback", "cleanup"}
              => req[r].passes = 0
        /\ req[r].passes <= 1

\* C22 witness: requests ended with a propagated failure, with a fallback response
\* and with a network response, each after one pass
C22_Witness ==
    \E r, q \in Slots :
        /\ req[r].intercepted /\ req[r].pc = "done" /\ req[r].passes = 1
        /\ req[r].result.kind = "error"
        /\ req[q].intercepted /\ req[q].pc = "done" /\ req[q].passes = 1
        /\ req[q].result.src \in {"static-page", "offline-page", "placeholder"}

\* C23: the writes of overlapping requests for the same key in the same cache are
\* not serialized: each write that completes replaces whatever entry the key had,
\* so the entry left is that of the write that completed last, which can be the
\* response of the request issued earlier.
C23_LastWriteWins ==
    [][ \A r \in Slots :
          /\ (req[r].pc = "put" /\ req'[r].pc # "put") =>
                CacheMatch(store'[req[r].cfg.cacheName], req[r].url)
                    = <<Entry(req[r].url, req[r].stamp, req[r].id)>>
          /\ (req[r].bg = "put" /\ req'[r].bg # "put") =>
                CacheMatch(store'[req[r].cfg.cacheName], req[r].url)
                    = <<Entry(req[r].url, req[r].bgstamp, req[r].id)>> ]_vars

\* C23 witness: two overlapping requests for one key both wrote their response, and
\* the entry left is the response of the request issued first
C23_Witness ==
    \E r, q \in Slots :
        /\ req[r].id > 0 /\ req[r].id < req[q].id
        /\ req[r].url = req[q].url
        /\ req[r].cfg = req[q].cfg
        /\ req[r].net = "ok" /\ req[q].net = "ok"
        /\ req[r].pc = "done" /\ req[q].pc = "done"
        /\ req[r].result = FromNetwork(TRUE, req[r].id)
        /\ req[q].result = FromNetwork(TRUE, req[q].id)
        /\ CacheMatch(store[req[r].cfg.cacheName], req[r].url) # <<>>
        /\ CacheMatch(store[req[r].cfg.cacheName], req[r].url)[1].body = req[r].id

\* C24: for a request whose strategy threw, handleOfflineFallback returns a
\* response when the destination is 'document' or 'image', and throws 'Offline and
\* no cached response available' for every other destination and only for those;
\* that error is the outcome of handleRequest.
C24_FallbackByDestination ==
    \A r \in Slots :
        (req[r].strat.kind = "error" /\ req[r].pc \in {"cleanup", "evict", "done"}) =>
            /\ req[r].dest = "document" =>
                  /\ req[r].result.kind = "response"
                  /\ req[r].result.src \in {"static-page", "offline-page"}
            /\ req[r].dest = "image" =>
                  /\ req[r].result.kind = "response"
                  /\ req[r].result.src = "placeholder"
            /\ req[r].dest \notin {"document", "image"} =>
                  req[r].result = Thrown("Offline and no cached response available")

\* C24 witness: a failed request whose destination is neither 'document' nor 'image'
\* ended with the explicit failure, and a failed image request with the placeholder
C24_Witness ==
    \E r, q \in Slots :
        /\ req[r].pc = "done" /\ req[r].strat = Thrown(NetworkError)
        /\ req[r].dest \notin {"document", "image"}
        /\ req[r].result = Thrown("Offline and no cached response available")
        /\ req[q].pc = "done" /\ req[q].strat = Thrown(NetworkError)
        /\ req[q].dest = "image"
        /\ req[q].result.kind = "response"

\* C25: an error of the eviction pass (opening the cache, listing its keys or
\* deleting a key) is never propagated: from the start of the pass to the end of the
\* request the outcome stays what the strategy or the fallback produced, whether
\* the pass succeeds or fails.
C25_EvictionFailureSwallowed ==
    [][ \A r \in Slots :
          req[r].pc \in {"cleanup", "evict"} =>
              /\ req'[r].pc \in {"cleanup", "evict", "done"}
              /\ req'[r].result = req[r].result
              /\ req'[r].strat = req[r].strat ]_vars

\* C25 witness: a request ended with a response after its pass failed while deleting
\* keys, and another ended with a failure of its own after its pass failed
C25_Witness ==
    \E r, q \in Slots :
        /\ req[r].pc = "done" /\ req[r].evictError
        /\ req[r].passes = 1
        /\ req[r].result.kind = "response"
        /\ req[q].pc = "done" /\ req[q].evictError
        /\ req[q].result.kind = "error"
        /\ req[q].result.msg # StorageError

\* C26: on activation clients.claim() is called only after the deletion of every
\* cache outside the allow-list has finished, completed or failed: it is never
\* called while a deletion of the purge is still pending.
C26_ClaimAfterPurge ==
    [][ (sw.state = "activating" /\ sw'.state = "activated") => sw.purge = {} ]_vars

HtmlRoute(r) == req[r].cfg = ROUTE_CONFIG.html

\* the keys of `keys` that cache `entries` holds
Kept(entries, keys) == {k \in Range(keys) : CacheMatch(entries, k) # <<>>}

UnstampedLookup(r) ==
    /\ req[r].cfg.strategy = CACHE_FIRST
    /\ req[r].looked
    /\ req[r].cached # <<>>
    /\ req[r].cached[1].hdr = NoHeader

C30_FreshEntrySurvives ==
    [][ \A r \in Slots :
          (req[r].pc = "evict" /\ req'[r].pc = "done") =>
              \A i \in 1..Len(store[req[r].cfg.cacheName]) :
                  LET e == store[req[r].cfg.cacheName][i] IN
                  CacheMatch(req[r].listed, e.key) # <<e>> =>
                      CacheMatch(store'[req[r].cfg.cacheName], e.key) = <<e>> ]_vars

====
